---- MODULE Spec2Model ----
(***************************************************************************)
(* Swiss Calculation Engine: swiss_calc_engine/engine.py and service.py.   *)
(*                                                                         *)
(* The engine's functions run as sequences of calls on the Swiss Ephemeris *)
(* calculation context, which is one process-wide mutable object (sidereal *)
(* mode, observer location, data directory).  Every call on that context   *)
(* is one step of the model; the local computation that follows a call up  *)
(* to the next call belongs to the same step.                              *)
(*                                                                         *)
(* Angles are whole degrees, instants whole minutes.  A Julian Day is the  *)
(* UTC minute count (swe.julday is linear in UTC time).  Python's None for *)
(* an optional number is the empty tuple, a present number x is <<x>>.     *)
(***************************************************************************)
EXTENDS Integers, Sequences, FiniteSets, TLC

Nothing == <<>>
Some(x) == <<x>>
NoneStr == "None"

Range(s) == {s[k] : k \in DOMAIN s}

(***************************************************************************)
(* swisseph constants used by the engine.  A flag word is the set of its   *)
(* bits: a | b is union, a & ~b is set difference.                         *)
(***************************************************************************)
SEFLG_SPEED == "SEFLG_SPEED"
SEFLG_SIDEREAL == "SEFLG_SIDEREAL"
SEFLG_TOPOCTR == "SEFLG_TOPOCTR"
SEFLG_SWIEPH == "SEFLG_SWIEPH"
SEFLG_MOSEPH == "SEFLG_MOSEPH"

SIDM_LAHIRI == 1

PLANETS == <<0, 1, 2, 3, 4, 5, 6, 7, 8, 9, 10, 11>>

PLANET_NAMES ==
    [b \in Range(PLANETS) |->
        CASE b = 0 -> "Sun" [] b = 1 -> "Moon" [] b = 2 -> "Mercury"
          [] b = 3 -> "Venus" [] b = 4 -> "Mars" [] b = 5 -> "Jupiter"
          [] b = 6 -> "Saturn" [] b = 7 -> "Uranus" [] b = 8 -> "Neptune"
          [] b = 9 -> "Pluto" [] b = 10 -> "Mean Node" [] b = 11 -> "True Node"]

(***************************************************************************)
(* The Swiss Ephemeris library, as far as the engine uses it.  Its values  *)
(* are fixed functions of their arguments and of the calculation context.  *)
(* The tropical routines return values in 0..360: the engine is written to *)
(* accept whatever the routine returns.                                    *)
(***************************************************************************)
FullCircle == 360

EphLon(body, jd) == (body * 30 + jd) % (FullCircle + 1)

EphLat(body, jd) == ((body + jd) % 5) - 2

EphSpeed(body, jd) == ((body + jd) % 3) - 1

\* swe.houses(jd, lat, lon, hsys): 12 cusps and 8 further points (ascendant,
\* mc, armc, vertex, ...), all tropical
HouseSystemShift(hsys_byte) == IF hsys_byte = <<"P">> THEN 0 ELSE 7

swe_houses(jd, lat, lon, hsys_byte) ==
    LET asc == jd + 3 * lat + lon + HouseSystemShift(hsys_byte) IN
    [cusps |-> [k \in 1..12 |-> (asc + 30 * (k - 1)) % (FullCircle + 1)],
     ascmc |-> [k \in 1..8 |-> (asc + 47 * (k - 1)) % (FullCircle + 1)]]

\* swe.houses takes a byte string of length 1
houses_accepts(hsys_byte) == Len(hsys_byte) = 1

Ayanamsa(mode, jd) == 22 + mode + ((jd \div 90) % 2)

\* the observer set by swe.set_topo shifts a topocentric position
Parallax(observer) ==
    IF observer = Nothing THEN 0 ELSE 1 + ((observer[1] + observer[2]) % 2)

swe_degnorm(x) == x % FullCircle

\* the daily change of the ayanamsa, which the library subtracts from the
\* longitude speed of a sidereal position; speeds are counted in this unit
AyanamsaSpeed(mode, jd) == 1

VARIABLES
    sid_mode,     \* calculation context: mode set by swe.set_sid_mode
    topo,         \* calculation context: observer set by swe.set_topo, or Nothing
    ephe_path,    \* calculation context: directory set by swe.set_ephe_path
    env,          \* the deployment: data files, timezone support, environment variables
    pc,           \* per caller: position in the running function
    req,          \* per caller: the arguments of the running request
    loc,          \* per caller: local variables of the running functions
    out,          \* per caller: what the last request returned or raised
    ncalls,       \* per caller: calls made on the calculation context by the running request
    prev          \* per caller: the request to issue again and what it returned, if any

vars == <<sid_mode, topo, ephe_path, env, pc, req, loc, out, ncalls, prev>>

ctx == <<sid_mode, topo, ephe_path>>

Procs == {1, 2}

\* swe.calc_ut(jd, body, flags) in the current context; ok is whether the
\* method the flags select can answer (ret >= 0)
calc_ut(jd, body, flags, ok) ==
    IF ~ok
    THEN [pos |-> [lon |-> 0, lat |-> 0, spd |-> 0], ret |-> -1]
    ELSE LET shift == IF SEFLG_TOPOCTR \in flags THEN Parallax(topo) ELSE 0
             trop == EphLon(body, jd + shift)
             lon == IF SEFLG_SIDEREAL \in flags
                    THEN swe_degnorm(trop - Ayanamsa(sid_mode, jd))
                    ELSE trop
             spd == IF SEFLG_SIDEREAL \in flags
                    THEN EphSpeed(body, jd) - AyanamsaSpeed(sid_mode, jd)
                    ELSE EphSpeed(body, jd)
         IN [pos |-> [lon |-> lon, lat |-> EphLat(body, jd), spd |-> spd], ret |-> 0]

\* swe.get_ayanamsa_ut(jd) in the current context
get_ayanamsa_ut(jd) == Ayanamsa(sid_mode, jd)
(***************************************************************************)
(* Time.  A datetime is its wall-clock minute count and its UTC offset in  *)
(* minutes (Nothing for a naive datetime).                                 *)
(***************************************************************************)
Truthy(s) == s \notin {NoneStr, ""}

\* dt.replace(tzinfo=timezone.utc)
replace_utc(dt) == [dt EXCEPT !.tz = Some(0)]

\* dt.astimezone(timezone.utc), dt aware
astimezone_utc(dt) == [wall |-> dt.wall - dt.tz[1], tz |-> Some(0)]

\* engine.py 125-133
julian_day(dt) ==
    LET aware == IF dt.tz = Nothing THEN replace_utc(dt) ELSE dt
        dt_utc == astimezone_utc(aware)
    IN dt_utc.wall

\* the timezone boundary data: TimezoneFinder().timezone_at(lat, lng)
TimezoneAt(lat, lon) ==
    IF lat = 22 /\ lon = 88 THEN "Asia/Kolkata"
    ELSE IF lat = 51 /\ lon = 0 THEN "Europe/London"
    ELSE NoneStr

\* pytz: the zone's UTC offset at the wall-clock value
ZoneOffset(tz_name) == IF tz_name = "Asia/Kolkata" THEN 330 ELSE 0

LookupError == "lookup error"

\* what one lookup can do: answer from the boundary data, or raise
LookupOutcomes(lat, lon) ==
    IF env.tz_errors THEN {TimezoneAt(lat, lon), LookupError} ELSE {TimezoneAt(lat, lon)}

\* whether pytz can convert: pytz.timezone and localize may raise
LocalizeOutcomes == IF env.tz_errors THEN BOOLEAN ELSE {TRUE}

\* engine.py 81-94; lookup is what timezone_at did
detect_timezone(lat, lon, lookup) ==
    IF ~env.TIMEZONE_SUPPORT THEN NoneStr
    ELSE IF lookup = LookupError THEN NoneStr
    ELSE lookup

\* convert_local_to_utc without the conversion from the zone's civil time
convert_local_to_utc_as_utc(dt, lat, lon, lookup, localize_ok) ==
    IF dt.tz # Nothing THEN astimezone_utc(dt) ELSE replace_utc(dt)

\* engine.py 97-122; localize_ok is whether pytz could convert
convert_local_to_utc(dt, lat, lon, lookup, localize_ok) ==
    IF dt.tz # Nothing THEN astimezone_utc(dt)
    ELSE IF ~env.TIMEZONE_SUPPORT THEN replace_utc(dt)
    ELSE LET tz_name == detect_timezone(lat, lon, lookup) IN
         IF tz_name = NoneStr THEN replace_utc(dt)
         ELSE IF localize_ok
              THEN astimezone_utc([dt EXCEPT !.tz = Some(ZoneOffset(tz_name))])
              ELSE replace_utc(dt)

\* set_ephemeris_path with the environment variable taking precedence
set_ephemeris_path_env_first(path) ==
    IF Truthy(env.SWISS_EPHE_PATH) THEN env.SWISS_EPHE_PATH
    ELSE IF Truthy(path) THEN path
    ELSE env.cwd

\* engine.py 69-78: path or os.getenv("SWISS_EPHE_PATH") or os.getcwd()
set_ephemeris_path(path) ==
    IF Truthy(path) THEN path
    ELSE IF Truthy(env.SWISS_EPHE_PATH) THEN env.SWISS_EPHE_PATH
    ELSE env.cwd

\* str(HTTPException) is "<status>: <detail>"
HTTPException(status, detail) ==
    [type |-> "HTTPException", msg |-> [text |-> detail, status |-> status]]

\* parse_dt with a naive instant taken at offset +05:30 instead of UTC
parse_dt_naive_as_local(dt) ==
    LET aware == IF dt.tz = Nothing THEN [dt EXCEPT !.tz = Some(330)] ELSE dt
    IN astimezone_utc(aware)

\* service.py 234-242: the parsed instant in UTC
parse_dt(dt) ==
    LET aware == IF dt.tz = Nothing THEN replace_utc(dt) ELSE dt
    IN astimezone_utc(aware)

\* parse_dt_for_location with the offset of an aware instant dropped
parse_dt_for_location_drops_offset(dt, assume_local_time) ==
    IF dt.tz # Nothing THEN replace_utc(dt)
    ELSE IF assume_local_time THEN dt
    ELSE replace_utc(dt)

\* service.py 245-264: an aware instant in UTC; a naive one left naive for
\* the engine, or taken as UTC
parse_dt_for_location(dt, assume_local_time) ==
    IF dt.tz # Nothing THEN astimezone_utc(dt)
    ELSE IF assume_local_time THEN dt
    ELSE replace_utc(dt)

\* the arguments compute_positions runs with: its caller's, the ones
\* /v1/houses passes (service.py 186-195), or the ones the CLI passes with
\* the defaults for the rest (cli.py 36-44)
cp_args(r) ==
    IF r.ep = "api_houses"
    THEN [r EXCEPT !.dt = parse_dt_for_location(r.dt, r.assume_local_time),
                   !.ephe_dir = NoneStr, !.include_houses = TRUE]
    ELSE IF r.ep = "cli_main"
    THEN [r EXCEPT !.ayanamsa = SIDM_LAHIRI, !.assume_local_time = TRUE]
    ELSE r

(***************************************************************************)
(* House system codes: a Python str or bytes value is its type and its     *)
(* characters.                                                             *)
(***************************************************************************)
Str(chars) == [type |-> "str", chars |-> chars]
Bytes(chars) == [type |-> "bytes", chars |-> chars]

\* engine.py 204-213
hsys_byte(hsys) ==
    IF hsys.type = "str"
    THEN IF Len(hsys.chars) = 0 THEN <<"P">> ELSE <<hsys.chars[1]>>
    ELSE IF hsys.type = "bytes"
    THEN SubSeq(hsys.chars, 1, IF Len(hsys.chars) < 1 THEN Len(hsys.chars) ELSE 1)
    ELSE <<"P">>

(***************************************************************************)
(* Requests.  A caller runs one engine or service function at a time; ep   *)
(* names it and the other fields are its arguments (unused ones keep a     *)
(* fixed value).                                                           *)
(***************************************************************************)
JulianDays == {270, 602}
AyanamsaIds == {SIDM_LAHIRI, 3}
Kolkata == [lat |-> 22, lon |-> 88]
London == [lat |-> 51, lon |-> 0]
Pacific == [lat |-> 0, lon |-> -140]
\* coordinates outside +-90 / +-180
Nowhere == [lat |-> 95, lon |-> 200]

BaseRequest ==
    [ep |-> "", jd |-> 0, dt |-> [wall |-> 0, tz |-> Nothing],
     lat |-> Nothing, lon |-> Nothing, sidereal |-> TRUE, tropical |-> FALSE,
     ayanamsa |-> SIDM_LAHIRI, hsys |-> Str(<<"P">>), include_houses |-> FALSE,
     assume_local_time |-> FALSE, node |-> "true", ephe_dir |-> NoneStr, iso |-> TRUE]

\* get_planetary_positions(jd, sidereal, ayanamsa, lat, lon)
PositionRequests ==
    {[BaseRequest EXCEPT !.ep = "get_planetary_positions", !.jd = j,
                         !.sidereal = s, !.ayanamsa = a, !.lat = la, !.lon = lo] :
        j \in JulianDays, s \in BOOLEAN, a \in AyanamsaIds,
        la \in {Nothing, Some(Kolkata.lat)}, lo \in {Nothing, Some(Kolkata.lon), Some(London.lon)}}

\* get_house_cusps(jd, lat, lon, hsys, sidereal, ayanamsa)
HouseRequests ==
    {[BaseRequest EXCEPT !.ep = "get_house_cusps", !.jd = j, !.sidereal = s,
                         !.ayanamsa = a, !.lat = Some(Kolkata.lat), !.lon = Some(Kolkata.lon),
                         !.hsys = h] :
        j \in JulianDays, s \in BOOLEAN, a \in AyanamsaIds,
        h \in {Str(<<"P">>), Str(<<"K">>), Bytes(<<>>)}}
    \cup {[BaseRequest EXCEPT !.ep = "get_house_cusps", !.jd = 270,
                              !.lat = Some(Kolkata.lat), !.lon = Some(Kolkata.lon),
                              !.hsys = h] :
            h \in {Bytes(<<"K", "P">>), [type |-> "NoneType", chars |-> <<>>]}}

NaiveNoon == [wall |-> 600, tz |-> Nothing]
AwareNoon == [wall |-> 600, tz |-> Some(330)]

\* compute_positions(dt, lat, lon, ephe_dir, tropical, include_houses, hsys,
\*                   ayanamsa, assume_local_time)
ComputeRequests ==
    {[BaseRequest EXCEPT !.ep = "compute_positions", !.dt = d,
                         !.lat = Some(pl.lat), !.lon = Some(pl.lon),
                         !.tropical = t, !.ayanamsa = a, !.include_houses = ih,
                         !.assume_local_time = alt] :
        d \in {NaiveNoon, AwareNoon}, pl \in {Kolkata, Pacific}, t \in BOOLEAN,
        a \in AyanamsaIds, ih \in BOOLEAN, alt \in BOOLEAN}
    \cup {[BaseRequest EXCEPT !.ep = "compute_positions", !.dt = AwareNoon,
                              !.lat = Some(Kolkata.lat), !.lon = Some(Kolkata.lon),
                              !.include_houses = TRUE, !.hsys = h] :
            h \in {Str(<<>>), Str(<<"K", "P">>)}}
    \cup {[BaseRequest EXCEPT !.ep = "compute_positions", !.dt = AwareNoon,
                              !.lat = Some(Nowhere.lat), !.lon = Some(Nowhere.lon)],
          [BaseRequest EXCEPT !.ep = "compute_positions", !.dt = AwareNoon,
                              !.lat = Some(Kolkata.lat), !.lon = Some(Kolkata.lon),
                              !.ephe_dir = "/data"]}

\* GET /v1/planets?datetime=&tropical=&ayanamsa=&node=&latitude=&longitude=
\* iso: the datetime string is ISO 8601 and denotes dt
PlanetsApiRequests ==
    {[BaseRequest EXCEPT !.ep = "api_planets", !.dt = d, !.tropical = t, !.ayanamsa = a,
                         !.node = n, !.lat = la, !.lon = lo] :
        d \in {NaiveNoon, AwareNoon}, t \in BOOLEAN, a \in AyanamsaIds, n \in {"TRUE", "mean"},
        la \in {Nothing, Some(Kolkata.lat)}, lo \in {Nothing, Some(Kolkata.lon)}}
    \cup {[BaseRequest EXCEPT !.ep = "api_planets", !.iso = FALSE],
          [BaseRequest EXCEPT !.ep = "api_planets", !.dt = AwareNoon,
                              !.lat = Some(Nowhere.lat), !.lon = Some(Nowhere.lon)]}

\* GET /v1/houses?datetime=&lat=&lon=&hsys=&tropical=&ayanamsa=&assume_local_time=
HousesApiRequests ==
    {[BaseRequest EXCEPT !.ep = "api_houses", !.dt = d, !.tropical = t,
                         !.lat = Some(Kolkata.lat), !.lon = Some(Kolkata.lon),
                         !.assume_local_time = alt, !.iso = i] :
        d \in {NaiveNoon, AwareNoon}, t \in BOOLEAN, alt \in BOOLEAN, i \in BOOLEAN}

\* GET /v1/julian-day?datetime=
JulianDayApiRequests ==
    {[BaseRequest EXCEPT !.ep = "api_julian_day", !.dt = d, !.iso = i] :
        d \in {NaiveNoon, AwareNoon}, i \in BOOLEAN}

\* GET /v1/ayanamsa?datetime=&ayanamsa=
AyanamsaApiRequests ==
    {[BaseRequest EXCEPT !.ep = "api_ayanamsa", !.dt = d, !.ayanamsa = a, !.iso = i] :
        d \in {NaiveNoon, AwareNoon}, a \in AyanamsaIds, i \in BOOLEAN}

\* set_ephemeris_path(path)
EphemerisPathRequests ==
    {[BaseRequest EXCEPT !.ep = "set_ephemeris_path", !.ephe_dir = d] :
        d \in {NoneStr, "", "/data"}}

\* python -m swiss_calc_engine.cli --datetime --lat --lon [--tropical] [--houses]
CliRequests ==
    {[BaseRequest EXCEPT !.ep = "cli_main", !.dt = d, !.lat = Some(pl.lat),
                         !.lon = Some(pl.lon), !.include_houses = ih, !.iso = i] :
        d \in {NaiveNoon, AwareNoon}, pl \in {Kolkata, Pacific}, ih \in BOOLEAN,
        i \in BOOLEAN}

\* the startup of the service
StartupRequests == {[BaseRequest EXCEPT !.ep = "load_ephemeris_path"]}

Requests ==
    PositionRequests \cup HouseRequests \cup ComputeRequests \cup PlanetsApiRequests
    \cup HousesApiRequests \cup JulianDayApiRequests \cup AyanamsaApiRequests
    \cup EphemerisPathRequests \cup CliRequests \cup StartupRequests

\* two callers that share the calculation context: the service's event loop
\* and compute_positions (Lahiri), and a thread that asks for houses (Raman)
\* and sets the data directory
ConcurrentRequests(p) ==
    IF p = 1
    THEN {[BaseRequest EXCEPT !.ep = "compute_positions", !.dt = NaiveNoon,
                              !.lat = Some(Kolkata.lat), !.lon = Some(Kolkata.lon),
                              !.include_houses = TRUE, !.assume_local_time = TRUE],
          [BaseRequest EXCEPT !.ep = "api_planets", !.dt = AwareNoon,
                              !.lat = Some(Kolkata.lat), !.lon = Some(Kolkata.lon)],
          [BaseRequest EXCEPT !.ep = "api_houses", !.dt = AwareNoon,
                              !.lat = Some(Kolkata.lat), !.lon = Some(Kolkata.lon)],
          [BaseRequest EXCEPT !.ep = "api_julian_day", !.dt = AwareNoon],
          [BaseRequest EXCEPT !.ep = "api_ayanamsa", !.dt = AwareNoon],
          [BaseRequest EXCEPT !.ep = "cli_main", !.dt = AwareNoon,
                              !.lat = Some(Kolkata.lat), !.lon = Some(Kolkata.lon)],
          [BaseRequest EXCEPT !.ep = "load_ephemeris_path"]}
    ELSE {[BaseRequest EXCEPT !.ep = "get_house_cusps", !.jd = 270, !.ayanamsa = 3,
                              !.lat = Some(London.lat), !.lon = Some(London.lon)],
          [BaseRequest EXCEPT !.ep = "set_ephemeris_path", !.ephe_dir = "/data"]}

\* bodies whose calculation the library may refuse although the method is available
FailableBodies == {0, 11}

\* a deployment: files, whether the Swiss data files can be read; failable,
\* the bodies a method may refuse; tz_errors, whether timezone lookups and
\* conversions may raise; callers, who calls the engine
Environment(f, tz, dir, path, callers) ==
    [files |-> f, failable |-> IF callers = {1} THEN FailableBodies ELSE {0},
     TIMEZONE_SUPPORT |-> tz, tz_errors |-> callers = {1},
     EPHE_DIR |-> dir, SWISS_EPHE_PATH |-> path, cwd |-> "/srv", callers |-> callers,
     repeat |-> FALSE]

\* one caller: requests run one after the other
Environments ==
    {Environment(TRUE, TRUE, "/ephe", NoneStr, {1}),
     Environment(FALSE, TRUE, NoneStr, "", {1}),
     Environment(TRUE, FALSE, NoneStr, "/swiss", {1})}

\* two threads of a host application call the engine
ConcurrentEnvironments == {Environment(TRUE, TRUE, "/ephe", NoneStr, Procs)}

\* one caller that issues every request twice in succession, where the
\* library and the timezone data answer the same way both times
RepeatEnvironments ==
    {[Environment(f, TRUE, NoneStr, NoneStr, {1}) EXCEPT
        !.repeat = TRUE, !.failable = {}, !.tz_errors = FALSE] : f \in BOOLEAN}

Menu(p) == IF env.callers = Procs THEN ConcurrentRequests(p) ELSE Requests

NoPrev == [set |-> FALSE, req |-> BaseRequest, out |-> [kind |-> "none"]]

NoData ==
    [julian_day |-> 0, planets |-> <<>>, backend |-> "", timezone_detected |-> NoneStr,
     input_interpreted_as_local |-> "absent", houses |-> Nothing,
     backend_details |-> NoneStr]

LocInit ==
    [jd |-> 0, sidereal |-> FALSE, ayanamsa |-> 0, lat |-> Nothing, lon |-> Nothing,
     flags |-> {}, i |-> 0, result |-> <<>>, backends |-> <<>>, tries |-> <<>>,
     tz_name |-> NoneStr, localized |-> FALSE, detected_tz |-> NoneStr,
     data |-> NoData, cusps |-> <<>>, ascmc |-> <<>>,
     backend |-> "", hsys_byte |-> Nothing]

NoOut == [kind |-> "none"]

InitIn(environments) ==
    /\ sid_mode = 0
    /\ topo = Nothing
    /\ ephe_path = NoneStr
    /\ env \in environments
    /\ pc = [p \in Procs |-> "idle"]
    /\ req = [p \in Procs |-> BaseRequest]
    /\ loc = [p \in Procs |-> LocInit]
    /\ out = [p \in Procs |-> NoOut]
    /\ ncalls = [p \in Procs |-> 0]
    /\ prev = [p \in Procs |-> NoPrev]

Init == InitIn(Environments)

InitConcurrent == InitIn(ConcurrentEnvironments)

InitRepeat == InitIn(RepeatEnvironments)
(***************************************************************************)
(* How a request ends.                                                     *)
(***************************************************************************)
IsService(ep) == ep \in {"api_planets", "api_houses", "api_ayanamsa", "api_julian_day"}

Finish(p, o) ==
    /\ pc' = [pc EXCEPT ![p] = "done"]
    /\ out' = [out EXCEPT ![p] = o]

\* an exception e leaves the engine function; a service handler turns it
\* into HTTPException(status_code=400, detail=str(e)).  A message is its
\* text and the values formatted into it.
Raise(p, e) ==
    IF IsService(req[p].ep)
    THEN Finish(p, [kind |-> "http_error", status |-> 400, detail |-> e.msg])
    ELSE Finish(p, [kind |-> "raise", error |-> e])

RuntimeError(msg) == [type |-> "RuntimeError", msg |-> msg]

\* a request arrives: callers run one request at a time, and only the
\* deployment's callers run
Start(p) ==
    /\ p \in env.callers
    /\ pc[p] = "idle"
    /\ \E r \in (IF prev[p].set THEN {prev[p].req} ELSE Menu(p)) :
        /\ req' = [req EXCEPT ![p] = r]
        /\ pc' = [pc EXCEPT ![p] = r.ep]
        /\ loc' = [loc EXCEPT ![p] =
                     IF r.ep \in {"get_planetary_positions", "get_house_cusps"}
                     THEN [LocInit EXCEPT !.jd = r.jd, !.sidereal = r.sidereal,
                                          !.ayanamsa = r.ayanamsa, !.lat = r.lat, !.lon = r.lon]
                     ELSE LocInit]
    /\ UNCHANGED <<ctx, env, prev, out, ncalls>>

\* the caller takes what the request returned or raised
Return(p) ==
    /\ pc[p] = "done"
    /\ pc' = [pc EXCEPT ![p] = "idle"]
    /\ req' = [req EXCEPT ![p] = BaseRequest]
    /\ loc' = [loc EXCEPT ![p] = LocInit]
    /\ out' = [out EXCEPT ![p] = NoOut]
    /\ ncalls' = [ncalls EXCEPT ![p] = 0]
    /\ prev' = [prev EXCEPT ![p] = IF env.repeat /\ ~prev[p].set
                                   THEN [set |-> TRUE, req |-> req[p], out |-> out[p]]
                                   ELSE NoPrev]
    /\ UNCHANGED <<ctx, env>>

(***************************************************************************)
(* get_planetary_positions and _swe_calc                                   *)
(***************************************************************************)
\* gpp_set_sid_mode that puts the library's default mode back when the
\* context already has the requested one
gpp_set_sid_mode_toggles(p) ==
    /\ pc[p] = "get_planetary_positions"
    /\ LET l == loc[p] IN
        /\ loc' = [loc EXCEPT ![p].flags =
                     IF l.sidereal THEN {SEFLG_SPEED, SEFLG_SIDEREAL} ELSE {SEFLG_SPEED}]
        /\ sid_mode' = IF ~l.sidereal THEN sid_mode
                       ELSE IF sid_mode = l.ayanamsa THEN 0 ELSE l.ayanamsa
        /\ ncalls' = [ncalls EXCEPT ![p] = IF l.sidereal THEN @ + 1 ELSE @]
    /\ pc' = [pc EXCEPT ![p] = "gpp_topo"]
    /\ UNCHANGED <<topo, ephe_path, env, prev, req, out>>

\* engine.py 169-172: flags = SEFLG_SPEED; if sidereal: add the flag, set the mode
gpp_set_sid_mode(p) ==
    /\ pc[p] = "get_planetary_positions"
    /\ LET l == loc[p] IN
        /\ loc' = [loc EXCEPT ![p].flags =
                     IF l.sidereal THEN {SEFLG_SPEED, SEFLG_SIDEREAL} ELSE {SEFLG_SPEED}]
        /\ sid_mode' = IF l.sidereal THEN l.ayanamsa ELSE sid_mode
        /\ ncalls' = [ncalls EXCEPT ![p] = IF l.sidereal THEN @ + 1 ELSE @]
    /\ pc' = [pc EXCEPT ![p] = "gpp_topo"]
    /\ UNCHANGED <<topo, ephe_path, env, prev, req, out>>

\* gpp_set_topo enabled by either coordinate, the missing one taken as zero
gpp_set_topo_zero_filled(p) ==
    /\ pc[p] = "gpp_topo"
    /\ LET r == req[p]
           either == r.lat # Nothing \/ r.lon # Nothing
           lat == IF r.lat # Nothing THEN r.lat[1] ELSE 0
           lon == IF r.lon # Nothing THEN r.lon[1] ELSE 0
       IN
        /\ topo' = IF either THEN <<lon, lat, 0>> ELSE topo
        /\ loc' = [loc EXCEPT ![p].flags = IF either THEN @ \cup {SEFLG_TOPOCTR} ELSE @,
                              ![p].i = 1, ![p].result = <<>>, ![p].backends = <<>>]
        /\ ncalls' = [ncalls EXCEPT ![p] = IF either THEN @ + 1 ELSE @]
    /\ pc' = [pc EXCEPT ![p] = "swe_calc_1"]
    /\ UNCHANGED <<sid_mode, ephe_path, env, prev, req, out>>

\* engine.py 173-179: topocentric only if both coordinates are given
gpp_set_topo(p) ==
    /\ pc[p] = "gpp_topo"
    /\ LET l == loc[p]
           both == l.lat # Nothing /\ l.lon # Nothing
       IN
        /\ topo' = IF both THEN <<l.lon[1], l.lat[1], 0>> ELSE topo
        /\ loc' = [loc EXCEPT ![p].flags = IF both THEN @ \cup {SEFLG_TOPOCTR} ELSE @,
                              ![p].i = 1, ![p].result = <<>>, ![p].backends = <<>>]
        /\ ncalls' = [ncalls EXCEPT ![p] = IF both THEN @ + 1 ELSE @]
    /\ pc' = [pc EXCEPT ![p] = "swe_calc_1"]
    /\ UNCHANGED <<sid_mode, ephe_path, env, prev, req, out>>

\* the outcomes swe.calc_ut can have for these flags: without data files only
\* the Moshier method answers
CalcOutcomes(body, flags) ==
    IF SEFLG_MOSEPH \notin flags /\ ~env.files THEN {FALSE}
    ELSE IF body \in env.failable THEN BOOLEAN
    ELSE {TRUE}

\* backend_overall with the fallback tag taking precedence
backend_overall_fallback_first(backends) ==
    IF "MOSEPH" \in Range(backends) THEN "MOSEPH"
    ELSE IF "SWIEPH" \in Range(backends) THEN "SWIEPH"
    ELSE "DEFAULT"

\* engine.py 195-196
backend_overall(backends) ==
    IF "SWIEPH" \in Range(backends) THEN "SWIEPH"
    ELSE IF "MOSEPH" \in Range(backends) THEN "MOSEPH"
    ELSE "DEFAULT"

\* str.lower() on the node parameter
Lower(str) == IF str \in {"TRUE", "True"} THEN "true" ELSE str

\* planets_response with Ketu's longitude not reduced mod 360
planets_response_ketu_unreduced(r, jd, planets, backend) ==
    LET rahu_key == IF Lower(r.node) = "true" THEN "True Node" ELSE "Mean Node"
        rahu == planets[rahu_key]
        ketu_lon == rahu.longitude + 180
        kept == DOMAIN planets \ {"True Node", "Mean Node"}
        planets_out == ("Ketu" :> [longitude |-> ketu_lon, latitude |-> 0])
                       @@ ("Rahu" :> rahu)
                       @@ [k \in kept |-> planets[k]]
    IN [julian_day |-> jd, tropical |-> r.tropical, ayanamsa_id |-> r.ayanamsa,
        backend |-> backend, planets |-> planets_out,
        location_used |-> [latitude |-> r.lat, longitude |-> r.lon]]

\* planets_response with the node parameter compared as written
planets_response_case_sensitive(r, jd, planets, backend) ==
    LET rahu_key == IF r.node = "true" THEN "True Node" ELSE "Mean Node"
        rahu == planets[rahu_key]
        ketu_lon == (rahu.longitude + 180) % FullCircle
        kept == DOMAIN planets \ {"True Node", "Mean Node"}
        planets_out == ("Ketu" :> [longitude |-> ketu_lon, latitude |-> 0])
                       @@ ("Rahu" :> rahu)
                       @@ [k \in kept |-> planets[k]]
    IN [julian_day |-> jd, tropical |-> r.tropical, ayanamsa_id |-> r.ayanamsa,
        backend |-> backend, planets |-> planets_out,
        location_used |-> [latitude |-> r.lat, longitude |-> r.lon]]

\* service.py 135-154: Rahu, Ketu and the response of /v1/planets
planets_response(r, jd, planets, backend) ==
    LET rahu_key == IF Lower(r.node) = "true" THEN "True Node" ELSE "Mean Node"
        rahu == planets[rahu_key]
        ketu_lon == (rahu.longitude + 180) % FullCircle
        kept == DOMAIN planets \ {"True Node", "Mean Node"}
        planets_out == ("Ketu" :> [longitude |-> ketu_lon, latitude |-> 0])
                       @@ ("Rahu" :> rahu)
                       @@ [k \in kept |-> planets[k]]
    IN [julian_day |-> jd, tropical |-> r.tropical, ayanamsa_id |-> r.ayanamsa,
        backend |-> backend, planets |-> planets_out,
        location_used |-> [latitude |-> r.lat, longitude |-> r.lon]]

\* engine.py 289-300: the result of compute_positions before the houses
cp_data(r, l, planets, backend) ==
    [NoData EXCEPT
        !.julian_day = l.jd, !.planets = planets, !.backend = backend,
        !.timezone_detected = IF Truthy(l.detected_tz) THEN l.detected_tz ELSE NoneStr,
        !.input_interpreted_as_local =
            IF Truthy(l.detected_tz) THEN "True"
            ELSE IF r.dt.tz = Nothing /\ ~r.assume_local_time THEN "False"
            ELSE "absent"]

\* get_planetary_positions returned (result, backend_overall) to its caller
gpp_return(p, l, planets, backend) ==
    LET r == cp_args(req[p]) IN
    IF r.ep \in {"compute_positions", "api_houses", "cli_main"}
    THEN LET data == cp_data(r, l, planets, backend) IN
         IF r.include_houses
         THEN /\ loc' = [loc EXCEPT ![p] = [l EXCEPT !.data = data]]
              /\ pc' = [pc EXCEPT ![p] = "get_house_cusps"]
              /\ UNCHANGED out
         ELSE /\ loc' = [loc EXCEPT ![p] = [l EXCEPT !.data = data]]
              /\ Finish(p, [kind |-> IF r.ep = "cli_main" THEN "printed" ELSE "return",
                            data |-> data])
    ELSE IF r.ep = "api_planets"
    THEN /\ loc' = [loc EXCEPT ![p] = l]
         /\ Finish(p, [kind |-> "response",
                       body |-> planets_response(r, l.jd, planets, backend)])
    ELSE /\ loc' = [loc EXCEPT ![p] = l]
         /\ Finish(p, [kind |-> "return", planets |-> planets, backend |-> backend])

\* gpp_loop_body with a failed body left out of the map instead of raising
gpp_loop_body_skips_failed(p, l, pos, ret, backend) ==
    LET name == PLANET_NAMES[PLANETS[l.i]]
        rec == [longitude |-> pos.lon, latitude |-> pos.lat,
                speed_longitude |-> pos.spd, is_retrograde |-> pos.spd < 0]
        l2 == IF ret < 0 THEN l
              ELSE [l EXCEPT !.backends = Append(@, backend), !.result = (name :> rec) @@ @]
    IN IF l.i < Len(PLANETS)
       THEN /\ loc' = [loc EXCEPT ![p] = [l2 EXCEPT !.i = @ + 1]]
            /\ pc' = [pc EXCEPT ![p] = "swe_calc_1"]
            /\ UNCHANGED out
       ELSE gpp_return(p, l2, l2.result, backend_overall(l2.backends))

\* engine.py 182-197: _swe_calc returned (pos, ret, backend) for body PLANETS[i]
gpp_loop_body(p, l, pos, ret, backend) ==
    LET name == PLANET_NAMES[PLANETS[l.i]] IN
    IF ret < 0
    THEN /\ loc' = [loc EXCEPT ![p] = [l EXCEPT !.backend = backend]]
         /\ Raise(p, RuntimeError([text |-> "Swiss Ephemeris calculation failed for planet {}",
                                   planet |-> name]))
    ELSE LET rec == [longitude |-> pos.lon,
                     latitude |-> pos.lat,
                     speed_longitude |-> pos.spd,
                     is_retrograde |-> pos.spd < 0]
             l2 == [l EXCEPT !.backend = backend, !.backends = Append(@, backend),
                             !.result = (name :> rec) @@ @]
         IN IF l.i < Len(PLANETS)
            THEN /\ loc' = [loc EXCEPT ![p] = [l2 EXCEPT !.i = @ + 1]]
                 /\ pc' = [pc EXCEPT ![p] = "swe_calc_1"]
                 /\ UNCHANGED out
            ELSE gpp_return(p, l2, l2.result, backend_overall(l2.backends))

\* engine.py 137-139, 143-144: the default call
swe_calc_1(p) ==
    /\ pc[p] = "swe_calc_1"
    /\ LET l == loc[p]
           body == PLANETS[l.i]
       IN \E ok \in CalcOutcomes(body, l.flags) :
            LET r == calc_ut(l.jd, body, l.flags, ok)
                l2 == [l EXCEPT !.tries = <<[flags |-> l.flags, ret |-> r.ret]>>]
            IN IF r.ret < 0
               THEN /\ loc' = [loc EXCEPT ![p] = l2]
                    /\ pc' = [pc EXCEPT ![p] = "swe_calc_2"]
                    /\ UNCHANGED out
               ELSE gpp_loop_body(p, l2, r.pos, r.ret, "SWIEPH")
    /\ ncalls' = [ncalls EXCEPT ![p] = @ + 1]
    /\ UNCHANGED <<ctx, env, prev, req>>

\* swe_calc_2 with the tag left at DEFAULT when the forced call succeeds
swe_calc_2_untagged(p) ==
    /\ pc[p] = "swe_calc_2"
    /\ LET l == loc[p]
           body == PLANETS[l.i]
           flags == l.flags \cup {SEFLG_SWIEPH}
       IN \E ok \in CalcOutcomes(body, flags) :
            LET r == calc_ut(l.jd, body, flags, ok)
                l2 == [l EXCEPT !.tries = Append(@, [flags |-> flags, ret |-> r.ret])]
            IN IF r.ret < 0
               THEN /\ loc' = [loc EXCEPT ![p] = l2]
                    /\ pc' = [pc EXCEPT ![p] = "swe_calc_3"]
                    /\ UNCHANGED out
               ELSE gpp_loop_body(p, l2, r.pos, r.ret, "DEFAULT")
    /\ ncalls' = [ncalls EXCEPT ![p] = @ + 1]
    /\ UNCHANGED <<ctx, env, prev, req>>

\* engine.py 140-142: the Swiss data-file method forced
swe_calc_2(p) ==
    /\ pc[p] = "swe_calc_2"
    /\ LET l == loc[p]
           body == PLANETS[l.i]
           flags == l.flags \cup {SEFLG_SWIEPH}
       IN \E ok \in CalcOutcomes(body, flags) :
            LET r == calc_ut(l.jd, body, flags, ok)
                l2 == [l EXCEPT !.tries = Append(@, [flags |-> flags, ret |-> r.ret])]
            IN IF r.ret < 0
               THEN /\ loc' = [loc EXCEPT ![p] = l2]
                    /\ pc' = [pc EXCEPT ![p] = "swe_calc_3"]
                    /\ UNCHANGED out
               ELSE gpp_loop_body(p, l2, r.pos, r.ret, "SWIEPH")
    /\ ncalls' = [ncalls EXCEPT ![p] = @ + 1]
    /\ UNCHANGED <<ctx, env, prev, req>>

\* swe_calc_3 with the sidereal flag kept
swe_calc_3_keeps_sidereal(p) ==
    /\ pc[p] = "swe_calc_3"
    /\ LET l == loc[p]
           body == PLANETS[l.i]
           flags == l.flags \cup {SEFLG_MOSEPH}
       IN \E ok \in CalcOutcomes(body, flags) :
            LET r == calc_ut(l.jd, body, flags, ok)
                l2 == [l EXCEPT !.tries = Append(@, [flags |-> flags, ret |-> r.ret])]
            IN gpp_loop_body(p, l2, r.pos, r.ret, IF r.ret >= 0 THEN "MOSEPH" ELSE "DEFAULT")
    /\ ncalls' = [ncalls EXCEPT ![p] = @ + 1]
    /\ UNCHANGED <<ctx, env, prev, req>>

\* engine.py 145-149: the sidereal flag removed, the Moshier method forced
swe_calc_3(p) ==
    /\ pc[p] = "swe_calc_3"
    /\ LET l == loc[p]
           body == PLANETS[l.i]
           flags == (l.flags \ {SEFLG_SIDEREAL}) \cup {SEFLG_MOSEPH}
       IN \E ok \in CalcOutcomes(body, flags) :
            LET r == calc_ut(l.jd, body, flags, ok)
                l2 == [l EXCEPT !.tries = Append(@, [flags |-> flags, ret |-> r.ret])]
            IN gpp_loop_body(p, l2, r.pos, r.ret, IF r.ret >= 0 THEN "MOSEPH" ELSE "DEFAULT")
    /\ ncalls' = [ncalls EXCEPT ![p] = @ + 1]
    /\ UNCHANGED <<ctx, env, prev, req>>

(***************************************************************************)
(* get_house_cusps                                                         *)
(***************************************************************************)
\* engine.py 244-245
houses_backend ==
    IF Truthy(env.EPHE_DIR) \/ Truthy(env.SWISS_EPHE_PATH) THEN "SWIEPH" ELSE "DEFAULT"

\* the response of /v1/houses with the backend key left out of the
\* compute_positions path
houses_response_without_backend(r, l, houses, backend) ==
    IF r.assume_local_time
    THEN [julian_day |-> l.data.julian_day, tropical |-> r.tropical,
          ayanamsa_id |-> r.ayanamsa, houses |-> houses,
          backend_details |-> IF backend # "DEFAULT" THEN backend ELSE NoneStr,
          timezone_detected |-> l.data.timezone_detected,
          input_interpreted_as_local |-> l.data.input_interpreted_as_local]
    ELSE [julian_day |-> l.jd, tropical |-> r.tropical, ayanamsa_id |-> r.ayanamsa,
          backend |-> backend, houses |-> houses]

\* service.py 184-229: the response of /v1/houses, from the result of
\* compute_positions (assume_local_time) or from get_house_cusps
houses_response(r, l, houses, backend) ==
    IF r.assume_local_time
    THEN [julian_day |-> l.data.julian_day, tropical |-> r.tropical,
          ayanamsa_id |-> r.ayanamsa, houses |-> houses,
          backend |-> l.data.backend,
          backend_details |-> IF backend # "DEFAULT" THEN backend ELSE NoneStr,
          timezone_detected |-> l.data.timezone_detected,
          input_interpreted_as_local |-> l.data.input_interpreted_as_local]
    ELSE [julian_day |-> l.jd, tropical |-> r.tropical, ayanamsa_id |-> r.ayanamsa,
          backend |-> backend, houses |-> houses]

\* get_house_cusps returned (data, backend) to its caller
ghc_return(p, l, houses, backend) ==
    LET r == req[p] IN
    IF r.ep \in {"compute_positions", "cli_main"}
    THEN LET data == [l.data EXCEPT !.houses = Some(houses),
                                    !.backend_details =
                                        IF backend # "DEFAULT" THEN backend ELSE NoneStr]
         IN /\ loc' = [loc EXCEPT ![p] = [l EXCEPT !.data = data]]
            /\ Finish(p, [kind |-> IF r.ep = "cli_main" THEN "printed" ELSE "return",
                          data |-> data])
    ELSE IF r.ep = "api_houses"
    THEN /\ loc' = [loc EXCEPT ![p] = l]
         /\ Finish(p, [kind |-> "response", body |-> houses_response(r, l, houses, backend)])
    ELSE /\ loc' = [loc EXCEPT ![p] = l]
         /\ Finish(p, [kind |-> "return", houses |-> houses, backend |-> backend])

\* engine.py 229-242: the returned dict from the cusps and points
houses_data(cusps, ascmc) ==
    [cusps |-> cusps, ascendant |-> ascmc[1], mc |-> ascmc[2],
     vertex |-> IF Len(ascmc) > 5 THEN Some(ascmc[6]) ELSE Nothing]

\* engine.py 204-219, 236-246: the house routine, and the tropical result
ghc_houses(p) ==
    /\ pc[p] = "get_house_cusps"
    /\ LET r == req[p]
           l == loc[p]
           hb == hsys_byte(r.hsys)
       IN IF ~houses_accepts(hb)
          THEN /\ loc' = [loc EXCEPT ![p].hsys_byte = Some(hb)]
               /\ Raise(p, [type |-> "TypeError",
                             msg |-> [text |-> "houses: hsys must be a byte string of length 1"]])
          ELSE LET h == swe_houses(l.jd, r.lat[1], r.lon[1], hb)
                   l2 == [l EXCEPT !.cusps = h.cusps, !.ascmc = h.ascmc,
                                   !.hsys_byte = Some(hb)]
               IN IF l.sidereal
                  THEN /\ loc' = [loc EXCEPT ![p] = l2]
                       /\ pc' = [pc EXCEPT ![p] = "ghc_set_sid_mode"]
                       /\ UNCHANGED out
                  ELSE ghc_return(p, l2, houses_data(h.cusps, h.ascmc), houses_backend)
    /\ ncalls' = [ncalls EXCEPT ![p] = @ + 1]
    /\ UNCHANGED <<ctx, env, prev, req>>

\* get_house_cusps reading the ayanamsa without setting the mode first
ghc_set_sid_mode_skipped(p) ==
    /\ pc[p] = "ghc_set_sid_mode"
    /\ sid_mode' = sid_mode
    /\ pc' = [pc EXCEPT ![p] = "ghc_get_ayanamsa"]
    /\ ncalls' = [ncalls EXCEPT ![p] = @ + 1]
    /\ UNCHANGED <<topo, ephe_path, env, prev, req, loc, out>>

\* engine.py 220-221
ghc_set_sid_mode(p) ==
    /\ pc[p] = "ghc_set_sid_mode"
    /\ sid_mode' = loc[p].ayanamsa
    /\ pc' = [pc EXCEPT ![p] = "ghc_get_ayanamsa"]
    /\ ncalls' = [ncalls EXCEPT ![p] = @ + 1]
    /\ UNCHANGED <<topo, ephe_path, env, prev, req, loc, out>>

\* ghc_get_ayanamsa with the cusps corrected and the angles left tropical
ghc_get_ayanamsa_cusps_only(p) ==
    /\ pc[p] = "ghc_get_ayanamsa"
    /\ LET l == loc[p]
           ayanamsa_value == get_ayanamsa_ut(l.jd)
           adjusted_cusps == [k \in DOMAIN l.cusps |-> (l.cusps[k] - ayanamsa_value) % FullCircle]
       IN ghc_return(p, l, houses_data(adjusted_cusps, l.ascmc), houses_backend)
    /\ ncalls' = [ncalls EXCEPT ![p] = @ + 1]
    /\ UNCHANGED <<ctx, env, prev, req>>

\* engine.py 222-234, 244-246
ghc_get_ayanamsa(p) ==
    /\ pc[p] = "ghc_get_ayanamsa"
    /\ LET l == loc[p]
           ayanamsa_value == get_ayanamsa_ut(l.jd)
           adjusted_cusps == [k \in DOMAIN l.cusps |-> (l.cusps[k] - ayanamsa_value) % FullCircle]
           adjusted_ascmc == [k \in DOMAIN l.ascmc |-> (l.ascmc[k] - ayanamsa_value) % FullCircle]
       IN ghc_return(p, l, houses_data(adjusted_cusps, adjusted_ascmc), houses_backend)
    /\ ncalls' = [ncalls EXCEPT ![p] = @ + 1]
    /\ UNCHANGED <<ctx, env, prev, req>>

(***************************************************************************)
(* compute_positions                                                       *)
(***************************************************************************)
\* compute_positions handing its coordinates to get_planetary_positions
compute_positions_passes_coordinates(p) ==
    /\ pc[p] = "compute_positions"
    /\ LET r == cp_args(req[p])
           lat == r.lat[1]
           lon == r.lon[1]
           naive_local == r.dt.tz = Nothing /\ r.assume_local_time
       IN
        /\ ephe_path' = set_ephemeris_path(r.ephe_dir)
        /\ \E lookup1 \in LookupOutcomes(lat, lon), lookup2 \in LookupOutcomes(lat, lon),
               localize_ok \in LocalizeOutcomes :
            LET dt_utc == IF naive_local
                          THEN convert_local_to_utc(r.dt, lat, lon, lookup1, localize_ok)
                          ELSE IF r.dt.tz # Nothing THEN r.dt ELSE replace_utc(r.dt)
                detected_tz == IF naive_local THEN detect_timezone(lat, lon, lookup2)
                               ELSE NoneStr
            IN loc' = [loc EXCEPT ![p] =
                        [LocInit EXCEPT
                            !.jd = julian_day(dt_utc), !.sidereal = ~r.tropical,
                            !.ayanamsa = r.ayanamsa, !.lat = r.lat, !.lon = r.lon,
                            !.tz_name = IF naive_local THEN detect_timezone(lat, lon, lookup1)
                                        ELSE NoneStr,
                            !.localized = naive_local /\ localize_ok
                                          /\ Truthy(detect_timezone(lat, lon, lookup1)),
                            !.detected_tz = detected_tz]]
    /\ pc' = [pc EXCEPT ![p] = "get_planetary_positions"]
    /\ ncalls' = [ncalls EXCEPT ![p] = @ + 1]
    /\ UNCHANGED <<sid_mode, topo, env, prev, req, out>>

\* engine.py 275-288: the data directory, the canonical time, the arguments
\* of get_planetary_positions (no lat, no lon)
compute_positions(p) ==
    /\ pc[p] = "compute_positions"
    /\ LET r == cp_args(req[p])
           lat == r.lat[1]
           lon == r.lon[1]
           naive_local == r.dt.tz = Nothing /\ r.assume_local_time
       IN
        /\ ephe_path' = set_ephemeris_path(r.ephe_dir)
        /\ \E lookup1 \in LookupOutcomes(lat, lon), lookup2 \in LookupOutcomes(lat, lon),
               localize_ok \in LocalizeOutcomes :
            LET dt_utc == IF naive_local
                          THEN convert_local_to_utc(r.dt, lat, lon, lookup1, localize_ok)
                          ELSE IF r.dt.tz # Nothing THEN r.dt ELSE replace_utc(r.dt)
                detected_tz == IF naive_local THEN detect_timezone(lat, lon, lookup2)
                               ELSE NoneStr
            IN loc' = [loc EXCEPT ![p] =
                        [LocInit EXCEPT
                            !.jd = julian_day(dt_utc), !.sidereal = ~r.tropical,
                            !.ayanamsa = r.ayanamsa,
                            !.tz_name = IF naive_local THEN detect_timezone(lat, lon, lookup1)
                                        ELSE NoneStr,
                            !.localized = naive_local /\ localize_ok
                                          /\ Truthy(detect_timezone(lat, lon, lookup1)),
                            !.detected_tz = detected_tz]]
    /\ pc' = [pc EXCEPT ![p] = "get_planetary_positions"]
    /\ ncalls' = [ncalls EXCEPT ![p] = @ + 1]
    /\ UNCHANGED <<sid_mode, topo, env, prev, req, out>>

(***************************************************************************)
(* The HTTP service                                                        *)
(***************************************************************************)
\* service.py 123-134: the instant, the Julian Day, and the arguments of
\* get_planetary_positions (lat and lon only when both are given)
api_planets(p) ==
    /\ pc[p] = "api_planets"
    /\ LET r == req[p]
           both == r.lat # Nothing /\ r.lon # Nothing
       IN IF ~r.iso
          THEN /\ UNCHANGED loc
               /\ Raise(p, HTTPException(400, "Invalid datetime format. Use ISO 8601."))
          ELSE /\ loc' = [loc EXCEPT ![p] =
                            [LocInit EXCEPT
                                !.jd = julian_day(parse_dt(r.dt)), !.sidereal = ~r.tropical,
                                !.ayanamsa = r.ayanamsa,
                                !.lat = IF both THEN r.lat ELSE Nothing,
                                !.lon = IF both THEN r.lon ELSE Nothing]]
               /\ pc' = [pc EXCEPT ![p] = "get_planetary_positions"]
               /\ UNCHANGED out
    /\ UNCHANGED <<ctx, env, prev, req, ncalls>>

\* service.py 159-195, 216-219: the instant, then compute_positions
\* (assume_local_time) or the Julian Day and get_house_cusps
api_houses(p) ==
    /\ pc[p] = "api_houses"
    /\ LET r == req[p] IN
       IF ~r.iso
       THEN /\ UNCHANGED loc
            /\ Raise(p, HTTPException(400, "Invalid datetime format. Use ISO 8601."))
       ELSE IF r.assume_local_time
       THEN /\ pc' = [pc EXCEPT ![p] = "compute_positions"]
            /\ UNCHANGED <<loc, out>>
       ELSE /\ loc' = [loc EXCEPT ![p] =
                         [LocInit EXCEPT !.jd = julian_day(parse_dt(r.dt)),
                                         !.sidereal = ~r.tropical, !.ayanamsa = r.ayanamsa]]
            /\ pc' = [pc EXCEPT ![p] = "get_house_cusps"]
            /\ UNCHANGED out
    /\ UNCHANGED <<ctx, env, prev, req, ncalls>>

\* service.py 87-94
api_julian_day(p) ==
    /\ pc[p] = "api_julian_day"
    /\ LET r == req[p] IN
       IF ~r.iso
       THEN Raise(p, HTTPException(400, "Invalid datetime format. Use ISO 8601."))
       ELSE Finish(p, [kind |-> "response",
                       body |-> [julian_day |-> julian_day(parse_dt(r.dt))]])
    /\ UNCHANGED <<ctx, env, prev, req, loc, ncalls>>

\* api_ayanamsa with the sidereal mode set before the instant is parsed
api_ayanamsa_mode_first(p) ==
    /\ pc[p] = "api_ayanamsa"
    /\ LET r == req[p] IN
       /\ sid_mode' = r.ayanamsa
       /\ ncalls' = [ncalls EXCEPT ![p] = @ + 1]
       /\ IF ~r.iso
          THEN /\ Raise(p, HTTPException(400, "Invalid datetime format. Use ISO 8601."))
               /\ UNCHANGED loc
          ELSE /\ loc' = [loc EXCEPT ![p] = [LocInit EXCEPT !.jd = julian_day(parse_dt(r.dt)),
                                                            !.ayanamsa = r.ayanamsa]]
               /\ pc' = [pc EXCEPT ![p] = "api_ayanamsa_get"]
               /\ UNCHANGED out
    /\ UNCHANGED <<topo, ephe_path, env, prev, req>>

\* service.py 97-106: the instant, the Julian Day, swe.set_sid_mode
api_ayanamsa(p) ==
    /\ pc[p] = "api_ayanamsa"
    /\ LET r == req[p] IN
       IF ~r.iso
       THEN /\ Raise(p, HTTPException(400, "Invalid datetime format. Use ISO 8601."))
            /\ UNCHANGED <<sid_mode, loc, ncalls>>
       ELSE /\ loc' = [loc EXCEPT ![p] = [LocInit EXCEPT !.jd = julian_day(parse_dt(r.dt)),
                                                         !.ayanamsa = r.ayanamsa]]
            /\ sid_mode' = r.ayanamsa
            /\ ncalls' = [ncalls EXCEPT ![p] = @ + 1]
            /\ pc' = [pc EXCEPT ![p] = "api_ayanamsa_get"]
            /\ UNCHANGED out
    /\ UNCHANGED <<topo, ephe_path, env, prev, req>>

\* service.py 107-109: swe.get_ayanamsa_ut and the response
api_ayanamsa_get(p) ==
    /\ pc[p] = "api_ayanamsa_get"
    /\ Finish(p, [kind |-> "response",
                  body |-> [ayanamsa_id |-> req[p].ayanamsa,
                            ayanamsa |-> get_ayanamsa_ut(loc[p].jd)]])
    /\ ncalls' = [ncalls EXCEPT ![p] = @ + 1]
    /\ UNCHANGED <<ctx, env, prev, req, loc>>

\* engine.py 69-78, called by a host application: swe.set_ephe_path
set_ephe_path(p) ==
    /\ pc[p] = "set_ephemeris_path"
    /\ ephe_path' = set_ephemeris_path(req[p].ephe_dir)
    /\ Finish(p, [kind |-> "return"])
    /\ ncalls' = [ncalls EXCEPT ![p] = @ + 1]
    /\ UNCHANGED <<sid_mode, topo, env, prev, req, loc>>

\* cli.py 30-44: the instant from --datetime, then compute_positions
cli_main(p) ==
    /\ pc[p] = "cli_main"
    /\ IF ~req[p].iso
       THEN Raise(p, [type |-> "ValueError", msg |-> [text |-> "Invalid isoformat string"]])
       ELSE /\ pc' = [pc EXCEPT ![p] = "compute_positions"]
            /\ UNCHANGED out
    /\ UNCHANGED <<ctx, env, prev, req, loc, ncalls>>

\* service.py 80-84: the startup hook sets the directory from EPHE_DIR
load_ephemeris_path(p) ==
    /\ pc[p] = "load_ephemeris_path"
    /\ ephe_path' = set_ephemeris_path(env.EPHE_DIR)
    /\ Finish(p, [kind |-> "return"])
    /\ ncalls' = [ncalls EXCEPT ![p] = @ + 1]
    /\ UNCHANGED <<sid_mode, topo, env, prev, req, loc>>

Next ==
    \E p \in Procs :
        \/ cli_main(p)
        \/ load_ephemeris_path(p)
        \/ api_planets(p)
        \/ api_houses(p)
        \/ api_julian_day(p)
        \/ api_ayanamsa(p)
        \/ api_ayanamsa_get(p)
        \/ set_ephe_path(p)
        \/ Start(p)
        \/ Return(p)
        \/ compute_positions(p)
        \/ ghc_houses(p)
        \/ ghc_set_sid_mode(p)
        \/ ghc_get_ayanamsa(p)
        \/ gpp_set_sid_mode(p)
        \/ gpp_set_topo(p)
        \/ swe_calc_1(p)
        \/ swe_calc_2(p)
        \/ swe_calc_3(p)

Spec == Init /\ [][Next]_vars

SpecConcurrent == InitConcurrent /\ [][Next]_vars

SpecRepeat == InitRepeat /\ [][Next]_vars

(***************************************************************************)
(* Properties                                                              *)
(***************************************************************************)
AllBodyNames == {PLANET_NAMES[PLANETS[k]] : k \in 1..Len(PLANETS)}

\* get_planetary_positions has returned its map to its caller
PositionsReturned(p) == Len(loc[p].backends) = Len(PLANETS)

\* the tropical longitude of a body for the arguments of get_planetary_positions
ExpectedTropical(l, body) ==
    EphLon(body, l.jd + (IF l.lat # Nothing /\ l.lon # Nothing
                         THEN Parallax(<<l.lon[1], l.lat[1], 0>>) ELSE 0))

\* all three attempts of _swe_calc failed for the current body
Exhausted(p) ==
    LET t == loc[p].tries IN Len(t) = 3 /\ \A k \in 1..3 : t[k].ret < 0

\* the request of p returned a house result
HousesReturned(p) ==
    /\ pc[p] = "done"
    /\ out[p].kind = "return"
    /\ \/ req[p].ep = "get_house_cusps"
       \/ req[p].ep = "compute_positions" /\ out[p].data.houses # Nothing

HousesOf(p) ==
    IF req[p].ep = "get_house_cusps" THEN out[p].houses ELSE out[p].data.houses[1]

\* what the tropical house routine produces for the request of p
RoutineHouses(p) ==
    swe_houses(loc[p].jd, req[p].lat[1], req[p].lon[1], hsys_byte(req[p].hsys))

\* C1: for a sidereal request every body's returned longitude is
\* (tropical longitude - ayanamsa of the request at its Julian Day) mod 360,
\* on the primary path and on the Moshier fallback path alike.
C1_SiderealLongitudeOnEveryPath ==
    \A p \in Procs :
        (loc[p].sidereal /\ PositionsReturned(p)) =>
            \A k \in 1..Len(PLANETS) :
                loc[p].result[PLANET_NAMES[PLANETS[k]]].longitude
                    = (ExpectedTropical(loc[p], PLANETS[k])
                       - Ayanamsa(loc[p].ayanamsa, loc[p].jd)) % FullCircle

\* C2: in sidereal mode every cusp and every angle returned by
\* get_house_cusps is (the tropical routine's value - ayanamsa of the request
\* at the same Julian Day) mod 360; in tropical mode it is the routine's value.
C2_HouseSiderealCorrection ==
    \A p \in Procs :
        HousesReturned(p) =>
            LET raw == RoutineHouses(p)
                ay == Ayanamsa(req[p].ayanamsa, loc[p].jd)
                Fix(x) == IF loc[p].sidereal THEN (x - ay) % FullCircle ELSE x
                h == HousesOf(p)
            IN /\ h.cusps = [k \in 1..12 |-> Fix(raw.cusps[k])]
               /\ h.ascendant = Fix(raw.ascmc[1])
               /\ h.mc = Fix(raw.ascmc[2])
               /\ h.vertex = Some(Fix(raw.ascmc[6]))

\* a sidereal house result in which a cusp wrapped below zero, and one in
\* tropical mode
C2_Witness ==
    \E p \in Procs :
        /\ HousesReturned(p)
        /\ loc[p].sidereal
        /\ \E k \in 1..12 :
            RoutineHouses(p).cusps[k] < Ayanamsa(req[p].ayanamsa, loc[p].jd)

\* C3: _swe_calc calls in a fixed order and stops at the first success: the
\* caller's flags; only after a failure the same flags with SEFLG_SWIEPH;
\* only after a second failure the flags without SEFLG_SIDEREAL and with
\* SEFLG_MOSEPH; never more than three calls for one body.
C3_AttemptOrder ==
    \A p \in Procs :
        LET t == loc[p].tries
            f == loc[p].flags
        IN /\ Len(t) <= 3
           /\ \A k \in 1..Len(t) : k < Len(t) => t[k].ret < 0
           /\ Len(t) >= 1 => t[1].flags = f
           /\ Len(t) >= 2 => t[2].flags = f \cup {SEFLG_SWIEPH}
           /\ Len(t) >= 3 => t[3].flags = (f \ {SEFLG_SIDEREAL}) \cup {SEFLG_MOSEPH}
           /\ pc[p] = "swe_calc_2" => (Len(t) = 1 /\ t[1].ret < 0)
           /\ pc[p] = "swe_calc_3" => (Len(t) = 2 /\ t[2].ret < 0)

\* the third attempt answered a sidereal request
C3_Witness ==
    \E p \in Procs :
        /\ Len(loc[p].tries) = 3
        /\ loc[p].tries[3].ret >= 0
        /\ SEFLG_SIDEREAL \in loc[p].flags

\* C4: when all three attempts fail for a body the request fails: nothing is
\* returned, and a returned position map has all twelve bodies.
C4_ExhaustionFailsRequest ==
    \A p \in Procs :
        /\ Exhausted(p) => (pc[p] = "done" /\ out[p].kind \in {"raise", "http_error"})
        /\ (pc[p] = "done" /\ out[p].kind = "return"
              /\ req[p].ep = "get_planetary_positions")
             => DOMAIN out[p].planets = AllBodyNames
        /\ (pc[p] = "done" /\ out[p].kind = "return" /\ req[p].ep = "compute_positions")
             => DOMAIN out[p].data.planets = AllBodyNames

\* compute_positions failed at the last body, after eleven were computed
C4_Witness ==
    \E p \in Procs :
        /\ Exhausted(p)
        /\ req[p].ep = "compute_positions"
        /\ Cardinality(DOMAIN loc[p].result) = 11
        /\ out[p].kind = "raise"

ErrorMessage(p) == IF out[p].kind = "raise" THEN out[p].error.msg ELSE out[p].detail

\* C5: when the fallback chain is exhausted for a body, the error given to
\* the caller names the body and the flag combination that failed.
C5_ErrorNamesBodyAndFlags ==
    \A p \in Procs :
        (pc[p] = "done" /\ Exhausted(p)) =>
            LET m == ErrorMessage(p) IN
            /\ "planet" \in DOMAIN m
            /\ m.planet = PLANET_NAMES[PLANETS[loc[p].i]]
            /\ "flags" \in DOMAIN m
            /\ m.flags \in {loc[p].tries[k].flags : k \in 1..3}

\* the calls of the running request of q on the calculation context that set
\* the sidereal mode or the observer, compute a body or the houses, or read
\* the ayanamsa (compute_positions first sets the data directory)
ContextCalls(q) == ncalls[q] - (IF req[q].ep = "compute_positions" THEN 1 ELSE 0)

\* q is between the first and the last such call of its request
InWindow(q) == pc[q] \notin {"idle", "done"} /\ ContextCalls(q) > 0

\* C6: requests are serialized against the shared calculation context: no
\* context call of one request happens between the first and the last
\* context call of another.
C6_RequestsSerialized ==
    [][\A p \in Procs : \A q \in Procs \ {p} :
          (ncalls'[p] > ncalls[p] /\ pc[p] # "compute_positions") => ~InWindow(q)]_vars

InRange(x) == x \in 0..(FullCircle - 1)

\* C7: every returned longitude lies in [0,360): each body's longitude from
\* get_planetary_positions, and every cusp, the ascendant, the mc and a
\* non-null vertex from get_house_cusps, whatever the routine returned.
C7_LongitudesInRange ==
    \A p \in Procs :
        /\ PositionsReturned(p) =>
              \A n \in DOMAIN loc[p].result : InRange(loc[p].result[n].longitude)
        /\ HousesReturned(p) =>
              LET h == HousesOf(p) IN
              /\ \A k \in DOMAIN h.cusps : InRange(h.cusps[k])
              /\ InRange(h.ascendant)
              /\ InRange(h.mc)
              /\ h.vertex # Nothing => InRange(h.vertex[1])

\* compute_positions returned for a naive instant with local-time inference
ComputedNaiveLocal(p) ==
    /\ pc[p] = "done"
    /\ out[p].kind = "return"
    /\ req[p].ep = "compute_positions"
    /\ req[p].dt.tz = Nothing
    /\ req[p].assume_local_time

\* C8: when the instant is naive, inference is enabled and the timezone
\* lookup fails, compute_positions returns, the Julian Day is the value taken
\* as UTC, and the diagnostics record the fallback: they are not those of a
\* successful conversion and not those of a request without inference.
C8_UtcFallbackRecorded ==
    \A p \in Procs :
        (ComputedNaiveLocal(p) /\ loc[p].tz_name = NoneStr) =>
            LET d == out[p].data IN
            /\ d.julian_day = req[p].dt.wall
            /\ ~(Truthy(d.timezone_detected) /\ d.input_interpreted_as_local = "True")
            /\ <<d.timezone_detected, d.input_interpreted_as_local>> # <<NoneStr, "absent">>

\* the Julian Day compute_positions resolved for the running request of p
ResolvedHere(p) ==
    req[p].ep = "compute_positions" /\ pc[p] \notin {"idle", "compute_positions"}

\* C9 as stated: the offset is subtracted whenever a zone is found
C9_ZoneFoundMeansConverted ==
    \A p \in Procs :
        (ResolvedHere(p) /\ req[p].dt.tz = Nothing /\ req[p].assume_local_time
           /\ loc[p].tz_name # NoneStr)
        => loc[p].jd = req[p].dt.wall
                       - ZoneOffset(TimezoneAt(req[p].lat[1], req[p].lon[1]))

\* C9: an instant with an offset is converted to UTC whatever
\* assume_local_time, lat and lon are; a naive one without inference is taken
\* as UTC; a naive one with inference and a zone found is the wall-clock value
\* minus the zone's offset when the conversion succeeds, and the wall-clock
\* value taken as UTC when the conversion raises.
C9_CanonicalTime ==
    \A p \in Procs :
        ResolvedHere(p) =>
            LET r == req[p] IN
            /\ r.dt.tz # Nothing => loc[p].jd = r.dt.wall - r.dt.tz[1]
            /\ (r.dt.tz = Nothing /\ ~r.assume_local_time) => loc[p].jd = r.dt.wall
            /\ (r.dt.tz = Nothing /\ r.assume_local_time /\ loc[p].tz_name # NoneStr) =>
                  loc[p].jd = IF loc[p].localized
                              THEN r.dt.wall - ZoneOffset(TimezoneAt(r.lat[1], r.lon[1]))
                              ELSE r.dt.wall

\* a naive instant was converted from the civil time of the zone found
C9_Witness ==
    \E p \in Procs :
        /\ ComputedNaiveLocal(p)
        /\ loc[p].localized
        /\ out[p].data.julian_day = req[p].dt.wall - 330

BothSupplied(p) == req[p].lat # Nothing /\ req[p].lon # Nothing

PositionsEntry(p) == req[p].ep \in {"get_planetary_positions", "api_planets"}

\* C10: for get_planetary_positions and /v1/planets the observer is set and
\* the topocentric flag is in every body calculation if and only if both
\* latitude and longitude are supplied; the observer set is the supplied
\* pair, never one with a zero in place of a missing coordinate.
C10_TopocentricIffBoth ==
    /\ [](\A p \in Procs :
            PositionsEntry(p) =>
                /\ \A k \in 1..Len(loc[p].tries) :
                      (SEFLG_TOPOCTR \in loc[p].tries[k].flags) <=> BothSupplied(p)
                /\ pc[p] \in {"swe_calc_1", "swe_calc_2", "swe_calc_3"} =>
                      ((SEFLG_TOPOCTR \in loc[p].flags) <=> BothSupplied(p)))
    /\ [][\A p \in Procs :
            (PositionsEntry(p) /\ pc[p] = "gpp_topo" /\ pc'[p] # "gpp_topo") =>
                topo' = IF BothSupplied(p) THEN <<req[p].lon[1], req[p].lat[1], 0>>
                        ELSE topo]_vars

\* /v1/planets answered a request with a latitude and no longitude
C10_Witness ==
    \E p \in Procs :
        /\ pc[p] = "done"
        /\ req[p].ep = "api_planets"
        /\ out[p].kind = "response"
        /\ req[p].lat # Nothing
        /\ req[p].lon = Nothing
        /\ topo = Nothing

\* /v1/planets answered the request of p
PlanetsAnswered(p) ==
    pc[p] = "done" /\ req[p].ep = "api_planets" /\ out[p].kind = "response"

\* C11: in every successful /v1/planets response Ketu's longitude is
\* (Rahu's longitude + 180) mod 360, in [0,360), and Ketu's latitude is 0,
\* for both node conventions and both frames.
C11_KetuOppositeRahu ==
    \A p \in Procs :
        PlanetsAnswered(p) =>
            LET b == out[p].body.planets IN
            /\ b["Ketu"].longitude \in {b["Rahu"].longitude + 180, b["Rahu"].longitude - 180}
            /\ InRange(b["Ketu"].longitude)
            /\ b["Ketu"].latitude = 0

\* a tropical response for the mean node with Rahu in the second half-circle
C11_Witness ==
    \E p \in Procs :
        /\ PlanetsAnswered(p)
        /\ req[p].tropical
        /\ req[p].node = "mean"
        /\ out[p].body.planets["Rahu"].longitude > 180

\* C12: the body map of a successful /v1/planets response has exactly the
\* ten planets, Rahu and Ketu as keys; Rahu is the whole record of the True
\* Node when the node parameter is 'true' in any case, and of the Mean Node
\* otherwise.
C12_ResponseKeysAndRahu ==
    \A p \in Procs :
        PlanetsAnswered(p) =>
            LET b == out[p].body.planets
                chosen == IF req[p].node \in {"true", "TRUE", "True"}
                          THEN "True Node" ELSE "Mean Node"
            IN /\ DOMAIN b = (AllBodyNames \ {"True Node", "Mean Node"}) \cup {"Rahu", "Ketu"}
               /\ Cardinality(DOMAIN b) = 12
               /\ b["Rahu"] = loc[p].result[chosen]

\* a response for node=TRUE in which the two nodes differ
C12_Witness ==
    \E p \in Procs :
        /\ PlanetsAnswered(p)
        /\ req[p].node = "TRUE"
        /\ loc[p].result["True Node"] # loc[p].result["Mean Node"]

\* C13: the planets map returned by compute_positions has the keys Rahu and
\* Ketu and neither of the raw node names.
C13_ComputePositionsHasRahuKetu ==
    \A p \in Procs :
        (pc[p] = "done" /\ req[p].ep = "compute_positions" /\ out[p].kind = "return") =>
            LET k == DOMAIN out[p].data.planets IN
            /\ {"Rahu", "Ketu"} \subseteq k
            /\ k \cap {"Mean Node", "True Node"} = {}

\* the overall tag get_planetary_positions returned for the request of p
OverallTag(p) ==
    IF req[p].ep = "api_planets" THEN out[p].body.backend
    ELSE IF req[p].ep = "get_planetary_positions" THEN out[p].backend
    ELSE loc[p].data.backend

\* C14: the overall backend tag is SWIEPH if a body was tagged SWIEPH,
\* otherwise MOSEPH if a body was tagged MOSEPH, otherwise DEFAULT.
C14_OverallBackendPrecedence ==
    \A p \in Procs :
        PositionsReturned(p) =>
            LET tags == {loc[p].backends[k] : k \in 1..Len(PLANETS)} IN
            /\ tags \subseteq {"SWIEPH", "MOSEPH", "DEFAULT"}
            /\ "SWIEPH" \in tags => OverallTag(p) = "SWIEPH"
            /\ ("SWIEPH" \notin tags /\ "MOSEPH" \in tags) => OverallTag(p) = "MOSEPH"
            /\ tags = {"DEFAULT"} => OverallTag(p) = "DEFAULT"

\* some bodies came from the Swiss files and some from the Moshier method
C14_Witness ==
    \E p \in Procs :
        /\ PositionsReturned(p)
        /\ {"SWIEPH", "MOSEPH"} \subseteq {loc[p].backends[k] : k \in 1..Len(PLANETS)}
        /\ OverallTag(p) = "SWIEPH"

OutOfRange(r) ==
    /\ r.lat # Nothing
    /\ r.lon # Nothing
    /\ (r.lat[1] \notin -90..90 \/ r.lon[1] \notin -180..180)

\* the request of p was refused before its first step on the calculation context
RejectedUnrun(p) ==
    /\ pc[p] \in {req[p].ep, "done"}
    /\ ncalls[p] = 0
    /\ pc[p] = "done" => out[p].kind \in {"raise", "http_error"}

\* C15: a request with a latitude outside [-90, 90] or a longitude outside
\* [-180, 180] makes no call on the calculation context in compute_positions,
\* /v1/houses and /v1/planets, and ends in an error.
C15_CoordinatesValidated ==
    \A p \in Procs :
        (req[p].ep \in {"compute_positions", "api_houses", "api_planets"}
           /\ OutOfRange(req[p]))
        => RejectedUnrun(p)

\* C16: compute_positions given a house-system code that is empty or longer
\* than one character calculates no body and ends in an error.
C16_HouseSystemValidated ==
    \A p \in Procs :
        (req[p].ep = "compute_positions" /\ Len(req[p].hsys.chars) # 1) =>
            /\ loc[p].tries = <<>>
            /\ DOMAIN loc[p].result = {}
            /\ pc[p] = "done" => out[p].kind = "raise"

\* C17: on every HTTP endpoint a datetime that is not ISO 8601 ends in an
\* HTTP 400 error and the request makes no step on the calculation context.
C17_UnparsableInstantRejected ==
    \A p \in Procs :
        (IsService(req[p].ep) /\ ~req[p].iso) =>
            /\ RejectedUnrun(p)
            /\ pc[p] = "done" => (out[p].kind = "http_error" /\ out[p].status = 400)

\* /v1/houses with local-time inference refused an unparsable datetime
C17_Witness ==
    \E p \in Procs :
        /\ pc[p] = "done"
        /\ req[p].ep = "api_houses"
        /\ req[p].assume_local_time
        /\ ~req[p].iso
        /\ out[p].kind = "http_error"

\* C19: is_retrograde is true exactly when the returned speed_longitude is
\* below zero, and it is the flag the tropical result has for the same
\* instant, whose speed is the routine's tropical speed.
C19_RetrogradeFrameIndependent ==
    \A p \in Procs :
        PositionsReturned(p) =>
            \A k \in 1..Len(PLANETS) :
                LET rec == loc[p].result[PLANET_NAMES[PLANETS[k]]] IN
                /\ rec.is_retrograde <=> rec.speed_longitude < 0
                /\ rec.is_retrograde <=> EphSpeed(PLANETS[k], loc[p].jd) < 0

\* the directory was set by set_ephemeris_path for the request of p
PathSet(p) ==
    \/ req[p].ep = "set_ephemeris_path" /\ pc[p] = "done"
    \/ req[p].ep = "compute_positions" /\ pc[p] \notin {"idle", "compute_positions"}

\* C20: set_ephemeris_path uses the explicit argument when it is given and
\* not empty, otherwise SWISS_EPHE_PATH when that is set and not empty,
\* otherwise the current working directory.
C20_EphemerisPathPrecedence ==
    \A p \in Procs :
        PathSet(p) =>
            LET arg == req[p].ephe_dir
                var == env.SWISS_EPHE_PATH
            IN /\ arg \notin {NoneStr, ""} => ephe_path = arg
               /\ (arg \in {NoneStr, ""} /\ var \notin {NoneStr, ""}) => ephe_path = var
               /\ (arg \in {NoneStr, ""} /\ var \in {NoneStr, ""}) => ephe_path = env.cwd

\* an explicit directory was used although SWISS_EPHE_PATH is set
C20_Witness ==
    \E p \in Procs :
        /\ PathSet(p)
        /\ req[p].ephe_dir = "/data"
        /\ env.SWISS_EPHE_PATH = "/swiss"
        /\ ephe_path = "/data"

\* C18: a request issued a second time, with nothing run in between, returns
\* what it returned the first time, whatever context the first run left.
C18_SameRequestSameResult ==
    \A p \in Procs :
        (pc[p] = "done" /\ prev[p].set) => out[p] = prev[p].out

\* a sidereal compute_positions with houses returned a second time
C18_Witness ==
    \E p \in Procs :
        /\ pc[p] = "done"
        /\ prev[p].set
        /\ req[p].ep = "compute_positions"
        /\ ~req[p].tropical
        /\ out[p].kind = "return"
        /\ out[p].data.houses # Nothing
        /\ out[p].data.backend = "SWIEPH"

HousesAnswered(p) ==
    pc[p] = "done" /\ req[p].ep = "api_houses" /\ out[p].kind = "response"

BackendTags == {"SWIEPH", "MOSEPH", "DEFAULT"}

\* C21: every successful /v1/planets response and every successful
\* /v1/houses response, on the compute_positions path and on the
\* get_house_cusps path alike, has a backend that is SWIEPH, MOSEPH or
\* DEFAULT; the /v1/houses response has houses with a list of cusps and a
\* numeric ascendant and mc.
C21_ResponsesCarryBackend ==
    \A p \in Procs :
        /\ PlanetsAnswered(p) =>
              /\ "backend" \in DOMAIN out[p].body
              /\ out[p].body.backend \in BackendTags
        /\ HousesAnswered(p) =>
              /\ "backend" \in DOMAIN out[p].body
              /\ out[p].body.backend \in BackendTags
              /\ {"cusps", "ascendant", "mc"} \subseteq DOMAIN out[p].body.houses
              /\ DOMAIN out[p].body.houses.cusps = 1..12
              /\ \A k \in 1..12 : out[p].body.houses.cusps[k] \in Int
              /\ out[p].body.houses.ascendant \in Int
              /\ out[p].body.houses.mc \in Int

\* /v1/houses answered on the compute_positions path, with the overall tag
\* of the bodies as its backend while the house heuristic says DEFAULT
C21_Witness ==
    \E p \in Procs :
        /\ HousesAnswered(p)
        /\ req[p].assume_local_time
        /\ out[p].body.backend = "MOSEPH"
        /\ houses_backend = "DEFAULT"

\* the CLI printed the result of compute_positions
CliPrinted(p) ==
    pc[p] = "done" /\ req[p].ep = "cli_main" /\ out[p].kind = "printed"

\* C22: the CLI's --datetime is an instant in UTC: a value without an offset
\* is taken as UTC, so the printed julian_day is that of the wall-clock value
\* whatever --lat and --lon are.
C22_CliDatetimeIsUtc ==
    \A p \in Procs :
        (CliPrinted(p) /\ req[p].dt.tz = Nothing) =>
            out[p].data.julian_day = julian_day(replace_utc(req[p].dt))

\* _swe_calc has returned for a body: its attempts are recorded and no
\* further attempt is pending
CalcReturned(p) ==
    /\ Len(loc[p].tries) > 0
    /\ pc[p] \notin {"swe_calc_2", "swe_calc_3"}
    /\ loc[p].backend # ""

\* C23: the tag _swe_calc returns for a body is SWIEPH exactly when attempt
\* 1 or attempt 2 succeeded, MOSEPH exactly when only attempt 3 succeeded, and
\* DEFAULT exactly when all three failed; since that last case fails the
\* request, a returned map never has the overall tag DEFAULT.
C23_BodyTagByAttempt ==
    \A p \in Procs :
        /\ CalcReturned(p) =>
              LET t == loc[p].tries
                  n == Len(t)
              IN /\ \A k \in 1..(n - 1) : t[k].ret < 0
                 /\ loc[p].backend = "SWIEPH" <=> (n \in {1, 2} /\ t[n].ret >= 0)
                 /\ loc[p].backend = "MOSEPH" <=> (n = 3 /\ t[n].ret >= 0)
                 /\ loc[p].backend = "DEFAULT" <=> (n = 3 /\ t[n].ret < 0)
                 /\ loc[p].backend \in BackendTags
        /\ PositionsReturned(p) => backend_overall(loc[p].backends) # "DEFAULT"
        /\ (pc[p] = "done" /\ out[p].kind \in {"return", "response", "printed"}
              /\ PositionsReturned(p)) => OverallTag(p) # "DEFAULT"

\* a body was tagged SWIEPH by the forced call after the default call failed
C23_Witness ==
    \E p \in Procs :
        /\ CalcReturned(p)
        /\ Len(loc[p].tries) = 2
        /\ loc[p].tries[1].ret < 0
        /\ loc[p].backend = "SWIEPH"

\* C24: whatever hsys get_house_cusps is given (a string of any length, the
\* empty one included, bytes of any length, the empty ones included, or a
\* value of another type), the code handed to the house routine is a byte
\* string of length exactly one.
C24_HouseCodeIsOneByte ==
    \A p \in Procs :
        loc[p].hsys_byte # Nothing => Len(loc[p].hsys_byte[1]) = 1

\* a request to one of the four endpoints is being handled
ServiceRunning ==
    \E p \in Procs : IsService(req[p].ep) /\ pc[p] \notin {"idle", "done"}

\* the directory is the one the startup hook took from EPHE_DIR
StartupDirectory == Truthy(env.EPHE_DIR) /\ ephe_path = env.EPHE_DIR

\* C25: once the startup of the service has set the ephemeris directory from
\* EPHE_DIR, the directory stays that one through every request to
\* /v1/julian-day, /v1/ayanamsa, /v1/planets and /v1/houses: no step of a
\* handler replaces it with SWISS_EPHE_PATH or the working directory.
C25_StartupDirectoryKept ==
    [][(ServiceRunning /\ StartupDirectory) => ephe_path' = ephe_path]_vars

\* the request of p is being run
Running(p) == pc[p] \notin {"idle", "done"}

\* the request of p asks for the tropical zodiac
TropicalRequest(p) ==
    IF req[p].ep \in {"get_planetary_positions", "get_house_cusps"}
    THEN ~req[p].sidereal
    ELSE req[p].ep \in {"compute_positions", "cli_main", "api_planets", "api_houses"}
         /\ req[p].tropical

AtBodyCalculation(p) == pc[p] \in {"swe_calc_1", "swe_calc_2", "swe_calc_3"}

AtAyanamsaRead(p) == pc[p] \in {"ghc_get_ayanamsa", "api_ayanamsa_get"}

\* C26: in a series of requests run one after the other, every body
\* calculation with the sidereal flag and every read of the ayanamsa happens
\* while the shared sidereal mode is the ayanamsa of the request being run,
\* and every topocentric calculation while the shared observer is that
\* request's coordinates, whatever earlier requests left; a tropical request
\* never changes the sidereal mode and a request without both coordinates
\* never changes the observer.
C26_ContextIsTheRequests ==
    /\ [](\A p \in Procs :
            /\ (AtBodyCalculation(p) /\ SEFLG_SIDEREAL \in loc[p].flags) =>
                  sid_mode = cp_args(req[p]).ayanamsa
            /\ AtAyanamsaRead(p) => sid_mode = cp_args(req[p]).ayanamsa
            /\ (AtBodyCalculation(p) /\ SEFLG_TOPOCTR \in loc[p].flags) =>
                  /\ BothSupplied(p)
                  /\ topo = <<req[p].lon[1], req[p].lat[1], 0>>)
    /\ [][\A p \in Procs :
            /\ (Running(p) /\ TropicalRequest(p)) => sid_mode' = sid_mode
            /\ (Running(p) /\ ~BothSupplied(p)) => topo' = topo]_vars

\* a sidereal topocentric calculation under Raman, past the first body
C26_Witness ==
    \E p \in Procs :
        /\ pc[p] = "swe_calc_1"
        /\ {SEFLG_SIDEREAL, SEFLG_TOPOCTR} \subseteq loc[p].flags
        /\ cp_args(req[p]).ayanamsa = 3
        /\ loc[p].i > 1
        /\ sid_mode = 3

\* compute_positions returned its result to the caller of p
ComputeReturned(p) ==
    /\ pc[p] = "done"
    /\ \/ req[p].ep = "compute_positions" /\ out[p].kind = "return"
       \/ CliPrinted(p)

\* C27: whenever a result of compute_positions reports timezone_detected = Z
\* with input_interpreted_as_local = true, its julian_day was computed by
\* converting the naive instant from Z's civil time, never by taking it as
\* UTC, in spite of the second lookup and of the fallbacks.
C27_DiagnosticsMatchConversion ==
    \A p \in Procs :
        (ComputeReturned(p)
           /\ Truthy(out[p].data.timezone_detected)
           /\ out[p].data.input_interpreted_as_local = "True")
        => out[p].data.julian_day
               = req[p].dt.wall - ZoneOffset(out[p].data.timezone_detected)

\* the houses of a request at a Julian Day: the routine's values, with the
\* ayanamsa subtracted unless tropical
HousesAt(r, jd) ==
    LET raw == swe_houses(jd, r.lat[1], r.lon[1], hsys_byte(r.hsys))
        ay == Ayanamsa(r.ayanamsa, jd)
        Fix(x) == IF r.tropical THEN x ELSE (x - ay) % FullCircle
    IN [cusps |-> [k \in 1..12 |-> Fix(raw.cusps[k])],
        ascendant |-> Fix(raw.ascmc[1]), mc |-> Fix(raw.ascmc[2]),
        vertex |-> Some(Fix(raw.ascmc[6]))]

\* C28: for an instant with an explicit offset, /v1/houses answers with the
\* same julian_day and the same houses with assume_local_time=true as with
\* assume_local_time=false: both are those of the instant converted to UTC.
C28_OffsetMakesInferenceIrrelevant ==
    \A p \in Procs :
        (HousesAnswered(p) /\ req[p].dt.tz # Nothing) =>
            LET jd == req[p].dt.wall - req[p].dt.tz[1] IN
            /\ out[p].body.julian_day = jd
            /\ out[p].body.houses = HousesAt(req[p], jd)

\* /v1/houses answered an instant with offset +05:30 through compute_positions
C28_Witness ==
    \E p \in Procs :
        /\ HousesAnswered(p)
        /\ req[p].dt = AwareNoon
        /\ req[p].assume_local_time
        /\ out[p].body.julian_day = 270
        /\ out[p].body.timezone_detected = NoneStr

\* /v1/houses answered a naive instant with inference enabled
HousesAnsweredNaiveLocal(p) ==
    HousesAnswered(p) /\ req[p].dt.tz = Nothing /\ req[p].assume_local_time

RunsComputePositions(p) ==
    \/ req[p].ep \in {"compute_positions", "cli_main"}
    \/ req[p].ep = "api_houses" /\ req[p].assume_local_time

\* C30: compute_positions never sets the observer and never asks for
\* topocentric positions: no body calculation of it carries the topocentric
\* flag and no step of it changes the observer; its coordinates serve the
\* timezone lookup and the houses only.
C30_ComputePositionsGeocentric ==
    /\ [](\A p \in Procs :
            RunsComputePositions(p) =>
                /\ SEFLG_TOPOCTR \notin loc[p].flags
                /\ \A k \in 1..Len(loc[p].tries) : SEFLG_TOPOCTR \notin loc[p].tries[k].flags)
    /\ [][\A p \in Procs :
            (Running(p) /\ RunsComputePositions(p)) => topo' = topo]_vars

\* compute_positions returned positions and houses for a place while the
\* observer was still the one an earlier request had set for another place
C30_Witness ==
    \E p \in Procs :
        /\ ComputeReturned(p)
        /\ out[p].data.houses # Nothing
        /\ topo # Nothing
        /\ topo # <<req[p].lon[1], req[p].lat[1], 0>>
====
